---- MODULE Spec2Model ----
(***************************************************************************)
(* Connection handling and protocol dispatch of the relay                  *)
(* (handlers.go, Relay.HandleWebsocket).                                   *)
(*                                                                         *)
(* One accepted websocket owns a read loop, a keepalive writer and one     *)
(* goroutine per inbound message.  The goroutines are modelled as          *)
(* processes whose steps are the accesses to shared state: the transport,  *)
(* the per-connection write gate, the WebSocket fields, the captured ctx   *)
(* variable, the client set and the listener registry.  Purely local       *)
(* computation is folded into the step that precedes the next shared       *)
(* access.                                                                 *)
(***************************************************************************)
EXTENDS Integers, Sequences, FiniteSets, TLC

\* ------------------------------------------------------------------ bounds

\* Frames the peers send in one run, over all connections.
MaxFrames == 2


\* Frames of a run that looks at one handler with long filter lists.
MaxSoloFrames == 1

\* Longest filter list of a REQ or COUNT envelope.
MaxFilters == 2

\* Largest result the count collaborator returns for one filter.
MaxCount == 1

\* ------------------------------------------------------------ value spaces

Conns == {"c1", "c2"}

SubIds == {"sub1", "sub2"}

PubKeys == {"pkA", "pkB"}

\* The service URL of a relay that has one, and the challenge of each
\* connection (8 random bytes, hex encoded; distinct per connection).
RelayURL == "wss://relay"

ChallengeOf(c) == IF c = "c1" THEN "chal1" ELSE "chal2"

Challenges == {ChallengeOf(c) : c \in Conns}

\* The filters of an envelope: filter k of the list is the integer k.
FilterLists == {[k \in 1..n |-> k] : n \in 0..MaxFilters}

NoListener == <<0>>

\* Writers of a connection's transport.
Free == <<"free", 0>>

ReaderW == <<"reader", 0>>

KeepaliveW == <<"keepalive", 0>>

TaskW(t) == <<"task", t>>

EoseW(t) == <<"eose", t>>

\* Reasons are <<machine-readable prefix, text>>; "" is no prefix.
NoReason == <<"", "">>

\* Errors a storage or registry collaborator returns (err.Error()).
CollabErrors == {<<"blocked", "policy">>, <<"", "database is down">>}

NoError == <<"nil", "">>

\* ------------------------------------------------------- library functions

\* sha256 of the canonical serialization, hex encoded: content k hashes
\* to "h<k>".
Sum256Hex(content) == IF content = 1 THEN "h1" ELSE "h2"

\* nostr.NormalizeOKMessage: a reason that already has a machine-readable
\* prefix is kept, any other gets the given prefix.
NormalizeOKMessage(reason, prefix) ==
    IF reason[1] # "" THEN reason ELSE <<prefix, reason[2]>>

\* nip42.ValidateAuthEvent: the challenge tag is the connection's
\* challenge, the relay tag is the service URL, the signature verifies.
ValidateAuthEvent(ev, challenge, url) ==
    /\ ev.challenge = challenge
    /\ ev.relay = url
    /\ ev.sig = "valid"

\* --------------------------------------------------------- inbound frames

JunkFrames == {[type |-> "JUNK"]}

\* Events of kind 5 are deletion requests; the model sends them well formed.
EventFrames ==
    {e \in [type : {"EVENT"}, ID : {"h1", "h2"}, content : {1},
            sig : {"valid", "invalid", "malformed"}, Kind : {1, 5}] :
        (e.Kind = 5) => (e.ID = "h1" /\ e.sig = "valid")}

CountFrames ==
    {[type |-> "COUNT", SubscriptionID |-> id, Filters |-> fs] :
        id \in {"sub1"}, fs \in FilterLists}

ReqFrames ==
    {[type |-> "REQ", SubscriptionID |-> id, Filters |-> fs] :
        id \in SubIds, fs \in FilterLists}

CloseFrames == {[type |-> "CLOSE", SubscriptionID |-> id] : id \in SubIds}

AuthFrames ==
    {[type |-> "AUTH", ID |-> "a1", PubKey |-> pk, challenge |-> ch,
      relay |-> RelayURL, sig |-> "valid"] :
        pk \in PubKeys, ch \in Challenges}

\* ------------------------------------------------------------------ state

VARIABLES
    rl,         \* the relay's configuration: ServiceURL, CountEvents
    clients,    \* rl.clients: the connections stored
    ws,         \* per connection: transport, write gate, WebSocket fields
    ticker,     \* per connection: the keepalive ticker
    reader,     \* per connection: position of the read loop
    keepalive,  \* per connection: position of the keepalive writer
    ctx,        \* per connection: the ctx variable the goroutines capture
    listeners,  \* the listener registry: connection -> id -> filters
    tasks,      \* the per-message goroutines, in the order they were spawned
    panicked    \* a goroutine panicked: the process is gone

vars == <<rl, clients, ws, ticker, reader, keepalive, ctx, listeners, tasks,
          panicked>>

NoWS ==
    [conn |-> "none", mutex |-> Free, writing |-> {}, Challenge |-> "",
     Authed |-> "", WaitingForAuth |-> "open"]

Init ==
    /\ rl \in [ServiceURL : {"", RelayURL}, CountEvents : BOOLEAN]
    /\ clients = {}
    /\ ws = [c \in Conns |-> NoWS]
    /\ ticker = [c \in Conns |-> [run |-> FALSE, C |-> 0]]
    /\ reader = [c \in Conns |-> "none"]
    /\ keepalive = [c \in Conns |-> "none"]
    /\ ctx = [c \in Conns |-> [ws |-> FALSE, auth |-> ""]]
    /\ listeners = [c \in Conns |-> [id \in SubIds |-> NoListener]]
    /\ tasks = <<>>
    /\ panicked = FALSE


\* ------------------------------------------------------- the write gate

\* WebSocket.WriteMessage / WebSocket.WriteJSON, entering: writer w takes
\* the connection's write gate and starts its frame on the transport.
GateEnter(c, w) ==
    /\ ws[c].mutex = Free
    /\ ws' = [ws EXCEPT ![c].mutex = w, ![c].writing = @ \cup {w}]

\* ... returning: the frame is finished and the gate released.
GateLeave(c, w) ==
    ws' = [ws EXCEPT ![c].mutex = Free, ![c].writing = @ \ {w}]

\* ------------------------------------------- connection set-up, read loop

\* HandleWebsocket up to the two go statements: the connection is stored,
\* the ticker made, the WebSocket built with its challenge and an open
\* WaitingForAuth channel, ctx is the request context carrying the ws.
Upgrade(c) ==
    /\ ~panicked
    /\ reader[c] = "none"
    /\ clients' = clients \cup {c}
    /\ ticker' = [ticker EXCEPT ![c] = [run |-> TRUE, C |-> 0]]
    /\ ws' = [ws EXCEPT ![c] = [NoWS EXCEPT !.conn = "open",
                                           !.Challenge = ChallengeOf(c)]]
    /\ ctx' = [ctx EXCEPT ![c] = [ws |-> TRUE, auth |-> ""]]
    /\ reader' = [reader EXCEPT ![c] = "loop"]
    /\ keepalive' = [keepalive EXCEPT ![c] = "select"]
    /\ UNCHANGED <<rl, listeners, tasks, panicked>>

\* conn.ReadMessage returns a ping: the loop answers it itself.
ReadPing(c) ==
    /\ ~panicked
    /\ reader[c] = "loop"
    /\ ws[c].conn = "open"
    /\ reader' = [reader EXCEPT ![c] = "pong"]
    /\ UNCHANGED <<rl, clients, ws, ticker, keepalive, ctx, listeners, tasks,
                   panicked>>

\* The pong written to conn itself, past the write gate.
PongBeginDirect(c) ==
    /\ ~panicked
    /\ reader[c] = "pong"
    /\ ws' = [ws EXCEPT ![c].writing = @ \cup {ReaderW}]
    /\ reader' = [reader EXCEPT ![c] = "ponging"]
    /\ UNCHANGED <<rl, clients, ticker, keepalive, ctx, listeners, tasks,
                   panicked>>

\* ws.WriteMessage(websocket.PongMessage, nil), entering.
PongBegin(c) ==
    /\ ~panicked
    /\ reader[c] = "pong"
    /\ GateEnter(c, ReaderW)
    /\ reader' = [reader EXCEPT ![c] = "ponging"]
    /\ UNCHANGED <<rl, clients, ticker, keepalive, ctx, listeners, tasks,
                   panicked>>

\* ... returning; the result is dropped and the loop continues.
PongEnd(c) ==
    /\ ~panicked
    /\ reader[c] = "ponging"
    /\ GateLeave(c, ReaderW)
    /\ reader' = [reader EXCEPT ![c] = "loop"]
    /\ UNCHANGED <<rl, clients, ticker, keepalive, ctx, listeners, tasks,
                   panicked>>

\* The record of a goroutine spawned for message m of connection c.
NewTask(c, m) ==
    [conn |-> c, env |-> m, pc |-> "start", out |-> [type |-> "none"],
     sent |-> <<>>, calls |-> <<>>, i |-> 1, isFullyRejected |-> TRUE,
     reason |-> NoReason, total |-> 0, eose |-> 0, eosePc |-> "none",
     eoseSent |-> <<>>]

\* The message handled in the read loop itself: the next frame is read
\* when the handler of the one before has returned.
ReadDataInline(c, m, bound) ==
    /\ ~panicked
    /\ reader[c] = "loop"
    /\ ws[c].conn = "open"
    /\ Len(tasks) < bound
    /\ \A t \in DOMAIN tasks : tasks[t].conn = c => tasks[t].pc = "done"
    /\ tasks' = Append(tasks, NewTask(c, m))
    /\ UNCHANGED <<rl, clients, ws, ticker, reader, keepalive, ctx, listeners,
                   panicked>>

\* conn.ReadMessage returns a data frame: go func(message).
ReadData(c, m, bound) ==
    /\ ~panicked
    /\ reader[c] = "loop"
    /\ ws[c].conn = "open"
    /\ Len(tasks) < bound
    /\ tasks' = Append(tasks, NewTask(c, m))
    /\ UNCHANGED <<rl, clients, ws, ticker, reader, keepalive, ctx, listeners,
                   panicked>>

\* conn.ReadMessage returns an error (the peer closed, the deadline passed,
\* or the transport was closed under it): break, and the deferred function
\* starts.
ReadError(c) ==
    /\ ~panicked
    /\ reader[c] = "loop"
    /\ reader' = [reader EXCEPT ![c] = "d_stop"]
    /\ UNCHANGED <<rl, clients, ws, ticker, keepalive, ctx, listeners, tasks,
                   panicked>>

\* deferred: ticker.Stop()
ReaderStop(c) ==
    /\ ~panicked
    /\ reader[c] = "d_stop"
    /\ ticker' = [ticker EXCEPT ![c].run = FALSE]
    /\ reader' = [reader EXCEPT ![c] = "d_load"]
    /\ UNCHANGED <<rl, clients, ws, keepalive, ctx, listeners, tasks, panicked>>

\* deferred: if _, ok := rl.clients.Load(conn); ok { conn.Close()
ReaderClose(c) ==
    /\ ~panicked
    /\ reader[c] = "d_load"
    /\ IF c \in clients
          THEN /\ ws' = [ws EXCEPT ![c].conn = "closed"]
               /\ reader' = [reader EXCEPT ![c] = "d_delete"]
          ELSE /\ reader' = [reader EXCEPT ![c] = "exited"]
               /\ UNCHANGED ws
    /\ UNCHANGED <<rl, clients, ticker, keepalive, ctx, listeners, tasks,
                   panicked>>

\* deferred: rl.clients.Delete(conn)
ReaderDelete(c) ==
    /\ ~panicked
    /\ reader[c] = "d_delete"
    /\ clients' = clients \ {c}
    /\ reader' = [reader EXCEPT ![c] = "d_remove"]
    /\ UNCHANGED <<rl, ws, ticker, keepalive, ctx, listeners, tasks, panicked>>

\* removeListener(ws): every registration of the connection is dropped.
removeListener(c) ==
    listeners' = [listeners EXCEPT ![c] = [id \in SubIds |-> NoListener]]

\* The deferred function without its removeListener call.
ReaderRemoveSkipped(c) ==
    /\ ~panicked
    /\ reader[c] = "d_remove"
    /\ reader' = [reader EXCEPT ![c] = "exited"]
    /\ UNCHANGED <<rl, clients, ws, ticker, keepalive, ctx, listeners, tasks,
                   panicked>>

\* deferred: removeListener(ws) }, and the read loop's goroutine is gone.
ReaderRemove(c) ==
    /\ ~panicked
    /\ reader[c] = "d_remove"
    /\ removeListener(c)
    /\ reader' = [reader EXCEPT ![c] = "exited"]
    /\ UNCHANGED <<rl, clients, ws, ticker, keepalive, ctx, tasks, panicked>>

\* ------------------------------------------------------------- keepalive

\* The runtime's timer puts a tick in ticker.C (capacity 1) while the
\* ticker runs.
TickerFire(c) ==
    /\ ~panicked
    /\ ticker[c].run
    /\ ticker[c].C = 0
    /\ ticker' = [ticker EXCEPT ![c].C = 1]
    /\ UNCHANGED <<rl, clients, ws, reader, keepalive, ctx, listeners, tasks,
                   panicked>>

\* case <-ticker.C:
KeepaliveTick(c) ==
    /\ ~panicked
    /\ keepalive[c] = "select"
    /\ ticker[c].C = 1
    /\ ticker' = [ticker EXCEPT ![c].C = 0]
    /\ keepalive' = [keepalive EXCEPT ![c] = "ping"]
    /\ UNCHANGED <<rl, clients, ws, reader, ctx, listeners, tasks, panicked>>

\* ws.WriteMessage(websocket.PingMessage, nil), entering.
PingBegin(c) ==
    /\ ~panicked
    /\ keepalive[c] = "ping"
    /\ GateEnter(c, KeepaliveW)
    /\ keepalive' = [keepalive EXCEPT ![c] = "pinging"]
    /\ UNCHANGED <<rl, clients, ticker, reader, ctx, listeners, tasks, panicked>>

\* ... returning: nil only from an open transport; on an error the task
\* returns and its deferred function starts.
PingEnd(c) ==
    /\ ~panicked
    /\ keepalive[c] = "pinging"
    /\ GateLeave(c, KeepaliveW)
    /\ \E ok \in BOOLEAN :
          /\ ok => ws[c].conn = "open"
          /\ keepalive' = [keepalive EXCEPT ![c] = IF ok THEN "select"
                                                       ELSE "k_stop"]
    /\ UNCHANGED <<rl, clients, ticker, reader, ctx, listeners, tasks, panicked>>

\* deferred: ticker.Stop()
KeepaliveStop(c) ==
    /\ ~panicked
    /\ keepalive[c] = "k_stop"
    /\ ticker' = [ticker EXCEPT ![c].run = FALSE]
    /\ keepalive' = [keepalive EXCEPT ![c] = "k_close"]
    /\ UNCHANGED <<rl, clients, ws, reader, ctx, listeners, tasks, panicked>>

\* deferred: conn.Close()
KeepaliveClose(c) ==
    /\ ~panicked
    /\ keepalive[c] = "k_close"
    /\ ws' = [ws EXCEPT ![c].conn = "closed"]
    /\ keepalive' = [keepalive EXCEPT ![c] = "done"]
    /\ UNCHANGED <<rl, clients, ticker, reader, ctx, listeners, tasks, panicked>>

\* ------------------------------------------------ per-message goroutines

\* The goroutines spawned so far, and the most there can be.
Tasks == DOMAIN tasks

Slots == 1..MaxFrames

SoloSlots == 1..MaxSoloFrames

Task(t) == tasks[t]

\* The goroutine's record replaced; nothing else of the tasks changes.
SetTask(t, tk) == tasks' = [tasks EXCEPT ![t] = tk]

OKEnvelope(id, ok, reason) ==
    [type |-> "OK", EventID |-> id, OK |-> ok, Reason |-> reason]

ClosedEnvelope(id, reason) ==
    [type |-> "CLOSED", SubscriptionID |-> id, Reason |-> reason]

CountEnvelope(id, total) ==
    [type |-> "COUNT", SubscriptionID |-> id, Count |-> total]

EOSEEnvelope(id) == [type |-> "EOSE", SubscriptionID |-> id]

\* ws.WriteJSON(e) followed by return: the write is what is left to do.
Reply(tk, e) == [tk EXCEPT !.out = e, !.pc = "write"]

\* case *nostr.EventEnvelope, the two integrity gates: the reason of the
\* negative acknowledgment, or NoReason when both pass.
EventGateSigFirst(ev) ==
    IF ev.sig = "malformed" THEN <<"error", "failed to verify signature">>
    ELSE IF ev.sig # "valid" THEN <<"invalid", "signature is invalid">>
    ELSE IF Sum256Hex(ev.content) # ev.ID
         THEN <<"invalid", "id is computed incorrectly">>
    ELSE NoReason

EventGate(ev) ==
    IF Sum256Hex(ev.content) # ev.ID
         THEN <<"invalid", "id is computed incorrectly">>
    ELSE IF ev.sig = "malformed" THEN <<"error", "failed to verify signature">>
    ELSE IF ev.sig # "valid" THEN <<"invalid", "signature is invalid">>
    ELSE NoReason

\* case *nostr.EventEnvelope up to the collaborator call.
EventEntry(tk) ==
    IF EventGate(tk.env) # NoReason
       THEN Reply(tk, OKEnvelope(tk.env.ID, FALSE, EventGate(tk.env)))
       ELSE [tk EXCEPT !.pc = "store"]

\* The acknowledgment of an event the collaborator answered with err.
EventAckAlwaysOK(ev, err) == OKEnvelope(ev.ID, TRUE, NoReason)

EventAck(ev, err) ==
    IF err = NoError
       THEN OKEnvelope(ev.ID, TRUE, NoReason)
       ELSE OKEnvelope(ev.ID, FALSE, NormalizeOKMessage(err, "blocked"))

\* case *nostr.CountEnvelope after the filter loop has advanced: past the
\* last filter the total is the reply.
CountLoop(tk) ==
    IF tk.i > Len(tk.env.Filters)
       THEN Reply(tk, CountEnvelope(tk.env.SubscriptionID, tk.total))
       ELSE [tk EXCEPT !.pc = "count"]

\* The capability gate without its return.
CountEntryNoGate(tk) == CountLoop(tk)

\* case *nostr.CountEnvelope up to the first collaborator call.
CountEntry(tk) ==
    IF ~rl.CountEvents
       THEN Reply(tk, ClosedEnvelope(tk.env.SubscriptionID,
                <<"unsupported", "this relay does not support NIP-45">>))
       ELSE CountLoop(tk)

\* The rejection branch without its return: the request goes on to the
\* EOSE goroutine and the registration.
ReqAfterLoopNoReturn(tk) ==
    [tk EXCEPT !.eosePc = "wait", !.pc = "setListener"]

\* case *nostr.ReqEnvelope after the filter loop: a fully rejected request
\* is closed; any other starts the EOSE goroutine and goes on to register.
ReqAfterLoop(tk) ==
    IF tk.isFullyRejected
       THEN Reply(tk, ClosedEnvelope(tk.env.SubscriptionID,
                                     NormalizeOKMessage(tk.reason, "blocked")))
       ELSE [tk EXCEPT !.eosePc = "wait", !.pc = "setListener"]

\* The filter loop left after its first turn.
ReqLoopFirstOnly(tk) ==
    IF tk.i > Len(tk.env.Filters) \/ tk.i > 1
       THEN ReqAfterLoop(tk)
       ELSE [tk EXCEPT !.pc = "req"]

\* for _, filter := range env.Filters: past the last filter the loop is
\* over, before it the next handleRequest call is what is left to do.
ReqLoop(tk) ==
    IF tk.i > Len(tk.env.Filters)
       THEN ReqAfterLoop(tk)
       ELSE [tk EXCEPT !.pc = "req"]

\* The EOSE goroutine started ahead of the filter loop, with no counter
\* to wait for.
ReqEntryEoseFirst(tk) ==
    ReqLoop([tk EXCEPT !.eose = 0, !.eosePc = "wait",
                       !.isFullyRejected = TRUE, !.reason = NoReason])

\* case *nostr.ReqEnvelope up to the first handleRequest call:
\* eose.Add(len(env.Filters)), isFullyRejected := true.
ReqEntry(tk) ==
    ReqLoop([tk EXCEPT !.eose = Len(tk.env.Filters),
                       !.isFullyRejected = TRUE, !.reason = NoReason])

\* The auth handler taking every auth event for a valid one.
AuthEntryNoValidate(tk) ==
    IF rl.ServiceURL = ""
       THEN [tk EXCEPT !.pc = "done"]
       ELSE [tk EXCEPT !.pc = "setAuthed"]

\* case *nostr.AuthEnvelope up to the first write of shared state.
AuthEntry(tk) ==
    IF rl.ServiceURL = ""
       THEN [tk EXCEPT !.pc = "done"]
       ELSE IF ValidateAuthEvent(tk.env, ws[tk.conn].Challenge, rl.ServiceURL)
               THEN [tk EXCEPT !.pc = "setAuthed"]
               ELSE Reply(tk, OKEnvelope(tk.env.ID, FALSE,
                                         <<"error", "failed to authenticate">>))

\* A frame that does not parse answered with a notice.
DispatchJunkNotice(tk) ==
    CASE tk.env.type = "JUNK" -> Reply(tk, [type |-> "NOTICE"])
      [] tk.env.type = "EVENT" -> EventEntry(tk)
      [] tk.env.type = "COUNT" -> CountEntry(tk)
      [] tk.env.type = "REQ" -> ReqEntry(tk)
      [] tk.env.type = "CLOSE" -> [tk EXCEPT !.pc = "close"]
      [] tk.env.type = "AUTH" -> AuthEntry(tk)

\* nostr.ParseMessage and the type switch.
Dispatch(tk) ==
    CASE tk.env.type = "JUNK" -> [tk EXCEPT !.pc = "done"]
      [] tk.env.type = "EVENT" -> EventEntry(tk)
      [] tk.env.type = "COUNT" -> CountEntry(tk)
      [] tk.env.type = "REQ" -> ReqEntry(tk)
      [] tk.env.type = "CLOSE" -> [tk EXCEPT !.pc = "close"]
      [] tk.env.type = "AUTH" -> AuthEntry(tk)

\* go func(message): ctx = context.Background(), then the message is
\* parsed and dispatched.
TaskStart(t) ==
    /\ ~panicked
    /\ t \in Tasks
    /\ Task(t).pc = "start"
    /\ ctx' = [ctx EXCEPT ![Task(t).conn] = [ws |-> FALSE, auth |-> ""]]
    /\ SetTask(t, Dispatch(Task(t)))
    /\ UNCHANGED <<rl, clients, ws, ticker, reader, keepalive, listeners,
                   panicked>>

\* ws.WriteJSON(out), entering.
TaskWriteBegin(t) ==
    /\ ~panicked
    /\ t \in Tasks
    /\ Task(t).pc = "write"
    /\ GateEnter(Task(t).conn, TaskW(t))
    /\ SetTask(t, [Task(t) EXCEPT !.pc = "writing"])
    /\ UNCHANGED <<rl, clients, ticker, reader, keepalive, ctx, listeners,
                   panicked>>

\* ... returning; the handler returns after it.
TaskWriteEnd(t) ==
    /\ ~panicked
    /\ t \in Tasks
    /\ Task(t).pc = "writing"
    /\ GateLeave(Task(t).conn, TaskW(t))
    /\ SetTask(t, [Task(t) EXCEPT !.sent = Append(@, Task(t).out),
                                  !.pc = "done"])
    /\ UNCHANGED <<rl, clients, ticker, reader, keepalive, ctx, listeners,
                   panicked>>

\* rl.handleDeleteRequest(ctx, &env.Event) for kind 5, rl.AddEvent(ctx,
\* &env.Event) for any other kind, returning err.
EventStore(t) ==
    /\ ~panicked
    /\ t \in Tasks
    /\ Task(t).pc = "store"
    /\ \E err \in {NoError} \cup CollabErrors :
          SetTask(t, Reply([Task(t) EXCEPT !.calls = Append(@,
                        [fn |-> IF Task(t).env.Kind = 5
                                   THEN "handleDeleteRequest" ELSE "AddEvent",
                         ctx |-> ctx[Task(t).conn], ret |-> err])],
                     EventAck(Task(t).env, err)))
    /\ UNCHANGED <<rl, clients, ws, ticker, reader, keepalive, ctx, listeners,
                   panicked>>

\* The count loop keeping the last filter's result for the total.
CountFilterLast(t) ==
    /\ ~panicked
    /\ t \in Tasks
    /\ Task(t).pc = "count"
    /\ \E n \in 0..MaxCount :
          SetTask(t, CountLoop([Task(t) EXCEPT
                        !.calls = Append(@, [fn |-> "handleCountRequest",
                                             ctx |-> ctx[Task(t).conn],
                                             filter |-> Task(t).env.Filters[Task(t).i],
                                             ret |-> n]),
                        !.total = n,
                        !.i = @ + 1]))
    /\ UNCHANGED <<rl, clients, ws, ticker, reader, keepalive, ctx, listeners,
                   panicked>>

\* total += rl.handleCountRequest(ctx, ws, filter)
CountFilter(t) ==
    /\ ~panicked
    /\ t \in Tasks
    /\ Task(t).pc = "count"
    /\ \E n \in 0..MaxCount :
          SetTask(t, CountLoop([Task(t) EXCEPT
                        !.calls = Append(@, [fn |-> "handleCountRequest",
                                             ctx |-> ctx[Task(t).conn],
                                             filter |-> Task(t).env.Filters[Task(t).i],
                                             ret |-> n]),
                        !.total = @ + n,
                        !.i = @ + 1]))
    /\ UNCHANGED <<rl, clients, ws, ticker, reader, keepalive, ctx, listeners,
                   panicked>>

\* rl.handleRequest(ctx, id, &eose, ws, filter) returning err: the
\* filter's synchronous part is over and the completion counter is one
\* lower; a rejected filter leaves no listener behind.
handleRequest(tk, err) ==
    [tk EXCEPT !.calls = Append(@, [fn |-> "handleRequest",
                                    ctx |-> ctx[tk.conn],
                                    filter |-> tk.env.Filters[tk.i],
                                    ret |-> err]),
               !.eose = @ - 1]

\* One turn of the filter loop: err == nil clears isFullyRejected, any
\* other err is the reason so far.
ReqFilter(t) ==
    /\ ~panicked
    /\ t \in Tasks
    /\ Task(t).pc = "req"
    /\ \E err \in {NoError} \cup CollabErrors :
          SetTask(t, ReqLoop([handleRequest(Task(t), err) EXCEPT
                        !.isFullyRejected = IF err = NoError THEN FALSE ELSE @,
                        !.reason = IF err = NoError THEN @ ELSE err,
                        !.i = @ + 1]))
    /\ UNCHANGED <<rl, clients, ws, ticker, reader, keepalive, ctx, listeners,
                   panicked>>

\* setListener(id, ws, filters): the connection's registration under id is
\* these filters, replacing any earlier one.
setListener(c, id, filters) ==
    listeners' = [listeners EXCEPT ![c][id] = filters]

\* removeListenerId(ws, id): the connection's registration under id is
\* dropped; one that does not exist is left alone.
removeListenerId(c, id) ==
    listeners' = [listeners EXCEPT ![c][id] = NoListener]

\* setListener(env.SubscriptionID, ws, env.Filters)
ReqSetListener(t) ==
    /\ ~panicked
    /\ t \in Tasks
    /\ Task(t).pc = "setListener"
    /\ setListener(Task(t).conn, Task(t).env.SubscriptionID, Task(t).env.Filters)
    /\ SetTask(t, [Task(t) EXCEPT
                     !.calls = Append(@, [fn |-> "setListener",
                                          id |-> Task(t).env.SubscriptionID,
                                          filters |-> Task(t).env.Filters]),
                     !.pc = "done"])
    /\ UNCHANGED <<rl, clients, ws, ticker, reader, keepalive, ctx, panicked>>

\* go func() { eose.Wait(); ws.WriteJSON(nostr.EOSEEnvelope(id)) }():
\* the wait is over and the write enters.
EoseWriteBegin(t) ==
    /\ ~panicked
    /\ t \in Tasks
    /\ Task(t).eosePc = "wait"
    /\ Task(t).eose = 0
    /\ GateEnter(Task(t).conn, EoseW(t))
    /\ SetTask(t, [Task(t) EXCEPT !.eosePc = "writing"])
    /\ UNCHANGED <<rl, clients, ticker, reader, keepalive, ctx, listeners,
                   panicked>>

\* ... returning, and the goroutine is gone.
EoseWriteEnd(t) ==
    /\ ~panicked
    /\ t \in Tasks
    /\ Task(t).eosePc = "writing"
    /\ GateLeave(Task(t).conn, EoseW(t))
    /\ SetTask(t, [Task(t) EXCEPT
                     !.eoseSent = Append(@, EOSEEnvelope(Task(t).env.SubscriptionID)),
                     !.eosePc = "done"])
    /\ UNCHANGED <<rl, clients, ticker, reader, keepalive, ctx, listeners,
                   panicked>>

\* The close handler dropping every registration of the connection.
CloseRemoveAll(t) ==
    /\ ~panicked
    /\ t \in Tasks
    /\ Task(t).pc = "close"
    /\ removeListener(Task(t).conn)
    /\ SetTask(t, [Task(t) EXCEPT !.pc = "done"])
    /\ UNCHANGED <<rl, clients, ws, ticker, reader, keepalive, ctx, panicked>>

\* case *nostr.CloseEnvelope: removeListenerId(ws, string(*env))
CloseRemove(t) ==
    /\ ~panicked
    /\ t \in Tasks
    /\ Task(t).pc = "close"
    /\ removeListenerId(Task(t).conn, Task(t).env.SubscriptionID)
    /\ SetTask(t, [Task(t) EXCEPT
                     !.calls = Append(@, [fn |-> "removeListenerId",
                                          id |-> Task(t).env.SubscriptionID]),
                     !.pc = "done"])
    /\ UNCHANGED <<rl, clients, ws, ticker, reader, keepalive, ctx, panicked>>

\* The auth handler going on to the signal without recording the identity.
AuthSetAuthedSkipped(t) ==
    /\ ~panicked
    /\ t \in Tasks
    /\ Task(t).pc = "setAuthed"
    /\ SetTask(t, [Task(t) EXCEPT !.pc = "closeChan"])
    /\ UNCHANGED <<rl, clients, ws, ticker, reader, keepalive, ctx, listeners,
                   panicked>>

\* ws.Authed = pubkey
AuthSetAuthed(t) ==
    /\ ~panicked
    /\ t \in Tasks
    /\ Task(t).pc = "setAuthed"
    /\ ws' = [ws EXCEPT ![Task(t).conn].Authed = Task(t).env.PubKey]
    /\ SetTask(t, [Task(t) EXCEPT !.pc = "closeChan"])
    /\ UNCHANGED <<rl, clients, ticker, reader, keepalive, ctx, listeners,
                   panicked>>

\* close(ws.WaitingForAuth): closing a closed channel panics, and no
\* goroutine of this file recovers.
AuthClose(t) ==
    /\ ~panicked
    /\ t \in Tasks
    /\ Task(t).pc = "closeChan"
    /\ IF ws[Task(t).conn].WaitingForAuth = "closed"
          THEN /\ panicked' = TRUE
               /\ SetTask(t, [Task(t) EXCEPT !.pc = "panic"])
               /\ UNCHANGED ws
          ELSE /\ ws' = [ws EXCEPT ![Task(t).conn].WaitingForAuth = "closed"]
               /\ SetTask(t, [Task(t) EXCEPT !.pc = "setCtx"])
               /\ UNCHANGED panicked
    /\ UNCHANGED <<rl, clients, ticker, reader, keepalive, ctx, listeners>>

\* ctx = context.WithValue(ctx, AUTH_CONTEXT_KEY, pubkey), then the
\* affirmative acknowledgment is what is left to write.
AuthSetCtx(t) ==
    /\ ~panicked
    /\ t \in Tasks
    /\ Task(t).pc = "setCtx"
    /\ ctx' = [ctx EXCEPT ![Task(t).conn].auth = Task(t).env.PubKey]
    /\ SetTask(t, Reply(Task(t), OKEnvelope(Task(t).env.ID, TRUE, NoReason)))
    /\ UNCHANGED <<rl, clients, ws, ticker, reader, keepalive, listeners,
                   panicked>>

\* ------------------------------------------------------- specifications

\* The read loop of a connection from its set-up to the end of its
\* deferred function.
Reader(c) ==
    \/ Upgrade(c)
    \/ ReadError(c)
    \/ ReaderStop(c) \/ ReaderClose(c) \/ ReaderDelete(c) \/ ReaderRemove(c)

\* The read loop answering the peer's pings.
Pong(c) == ReadPing(c) \/ PongBegin(c) \/ PongEnd(c)

\* The ticker and the keepalive writer.
Keepalive(c) ==
    \/ TickerFire(c) \/ KeepaliveTick(c)
    \/ PingBegin(c) \/ PingEnd(c)
    \/ KeepaliveStop(c) \/ KeepaliveClose(c)

\* The steps every handler shares.
Common(t) == TaskStart(t) \/ TaskWriteBegin(t) \/ TaskWriteEnd(t)

\* The steps of a subscription request and of its EOSE goroutine.
Req(t) ==
    \/ ReqFilter(t) \/ ReqSetListener(t)
    \/ EoseWriteBegin(t) \/ EoseWriteEnd(t)

\* A relay with neither a service URL nor a count collaborator.
InitPlain == Init /\ rl = [ServiceURL |-> "", CountEvents |-> FALSE]

\* One connection with all of its goroutines: the peer pings, the ticker
\* fires, and the peer sends one-filter subscription requests.
Next ==
    \/ \E c \in {"c1"} : Reader(c) \/ Pong(c) \/ Keepalive(c)
    \/ \E c \in {"c1"} :
          \E m \in {f \in ReqFrames : f.SubscriptionID = "sub1" /\ Len(f.Filters) = 1} :
             ReadData(c, m, MaxFrames)
    \/ \E t \in Slots : Common(t) \/ Req(t)

Spec == InitPlain /\ [][Next]_vars

\* One connection whose peer sends events and no pings, the ticker silent.
NextEvent ==
    \/ \E c \in {"c1"} : Reader(c)
    \/ \E c \in {"c1"} : \E m \in EventFrames : ReadData(c, m, MaxFrames)
    \/ \E t \in Slots : Common(t) \/ EventStore(t)

SpecEvent == InitPlain /\ [][NextEvent]_vars

\* ... sends count requests, to a relay with or without the collaborator.
InitCount == Init /\ rl.ServiceURL = ""

NextCount ==
    \/ \E c \in {"c1"} : Reader(c)
    \/ \E c \in {"c1"} : \E m \in CountFrames : ReadData(c, m, MaxSoloFrames)
    \/ \E t \in SoloSlots : Common(t) \/ CountFilter(t)

SpecCount == InitCount /\ [][NextCount]_vars

\* ... sends auth envelopes, to a relay with or without a service URL.
InitAuth == Init /\ ~rl.CountEvents

NextAuth ==
    \/ \E c \in {"c1"} : Reader(c)
    \/ \E c \in {"c1"} : \E m \in AuthFrames : ReadData(c, m, MaxFrames)
    \/ \E t \in Slots :
          Common(t) \/ AuthSetAuthed(t) \/ AuthClose(t) \/ AuthSetCtx(t)

SpecAuth == InitAuth /\ [][NextAuth]_vars

\* ... sends subscription requests of every length.
NextReq ==
    \/ \E c \in {"c1"} : Reader(c)
    \/ \E c \in {"c1"} : \E m \in {f \in ReqFrames : f.SubscriptionID = "sub1"} :
          ReadData(c, m, MaxSoloFrames)
    \/ \E t \in SoloSlots : Common(t) \/ Req(t)

SpecReq == InitPlain /\ [][NextReq]_vars

\* Two connections that have been served for a while: each is in its read
\* loop with no goroutine in flight, and the registry holds whatever their
\* earlier requests left there.
InitClose ==
    /\ rl = [ServiceURL |-> "", CountEvents |-> FALSE]
    /\ clients = Conns
    /\ ws = [c \in Conns |-> [NoWS EXCEPT !.conn = "open",
                                          !.Challenge = ChallengeOf(c)]]
    /\ ticker = [c \in Conns |-> [run |-> TRUE, C |-> 0]]
    /\ reader = [c \in Conns |-> "loop"]
    /\ keepalive = [c \in Conns |-> "select"]
    /\ ctx = [c \in Conns |-> [ws |-> FALSE, auth |-> ""]]
    /\ listeners \in [Conns -> [SubIds -> {NoListener, <<1>>}]]
    /\ tasks = <<>>
    /\ panicked = FALSE

\* Their peers stay connected and send closes and one-filter subscription
\* requests.
NextClose ==
    \/ \E c \in Conns :
          \E m \in CloseFrames \cup
                   {f \in ReqFrames : f.SubscriptionID = "sub1" /\ Len(f.Filters) = 1} :
             ReadData(c, m, MaxFrames)
    \/ \E t \in Slots : Common(t) \/ Req(t) \/ CloseRemove(t)

SpecClose == InitClose /\ [][NextClose]_vars

\* Two connections with their long-lived goroutines only: the peers ping
\* and disconnect, the tickers fire.
NextLive == \E c \in Conns : Reader(c) \/ Pong(c) \/ Keepalive(c)

\* What the scheduler and the clock guarantee: a goroutine that can take
\* its next step takes it, and a running ticker ticks.  What the peer does
\* (ReadPing, ReadError) is not guaranteed.
Fairness ==
    \A c \in Conns :
        /\ WF_vars(PongBegin(c) \/ PongEnd(c))
        /\ WF_vars(ReaderStop(c) \/ ReaderClose(c) \/ ReaderDelete(c)
                      \/ ReaderRemove(c))
        /\ WF_vars(KeepaliveTick(c) \/ PingBegin(c) \/ PingEnd(c))
        /\ WF_vars(KeepaliveStop(c) \/ KeepaliveClose(c))
        /\ WF_vars(TickerFire(c))

SpecLive == InitPlain /\ [][NextLive]_vars /\ Fairness

\* A relay with a service URL and no count collaborator.
InitService == Init /\ rl = [ServiceURL |-> RelayURL, CountEvents |-> FALSE]

\* One connection whose peer sends frames that do not parse among auth
\* envelopes for its challenge.
NextJunk ==
    \/ \E c \in {"c1"} : Reader(c)
    \/ \E c \in {"c1"} :
          \E m \in JunkFrames \cup {f \in AuthFrames : f.challenge = ChallengeOf(c)} :
             ReadData(c, m, MaxFrames)
    \/ \E t \in Slots :
          Common(t) \/ AuthSetAuthed(t) \/ AuthClose(t) \/ AuthSetCtx(t)

SpecJunk == InitService /\ [][NextJunk]_vars

\* A relay with a count collaborator and connections that have been
\* served for a while: the registry is empty or holds their registrations.
InitCounting ==
    /\ rl = [ServiceURL |-> "", CountEvents |-> TRUE]
    /\ clients = Conns
    /\ ws = [c \in Conns |-> [NoWS EXCEPT !.conn = "open",
                                          !.Challenge = ChallengeOf(c)]]
    /\ ticker = [c \in Conns |-> [run |-> TRUE, C |-> 0]]
    /\ reader = [c \in Conns |-> "loop"]
    /\ keepalive = [c \in Conns |-> "select"]
    /\ ctx = [c \in Conns |-> [ws |-> FALSE, auth |-> ""]]
    /\ listeners \in {[c \in Conns |-> [id \in SubIds |-> l]] :
                         l \in {NoListener, <<1>>}}
    /\ tasks = <<>>
    /\ panicked = FALSE

\* Their peers send count requests.
NextCounting ==
    \/ \E c \in Conns : \E m \in CountFrames : ReadData(c, m, MaxSoloFrames)
    \/ \E t \in SoloSlots : Common(t) \/ CountFilter(t)

SpecCounting == InitCounting /\ [][NextCounting]_vars

\* ... sends well-formed events of kind 1 among auth envelopes for its
\* challenge.
NextCtx ==
    \/ \E c \in {"c1"} : Reader(c)
    \/ \E c \in {"c1"} :
          \E m \in {f \in EventFrames : EventGate(f) = NoReason /\ f.Kind = 1}
                   \cup {f \in AuthFrames : f.challenge = ChallengeOf(c)} :
             ReadData(c, m, MaxFrames)
    \/ \E t \in Slots :
          \/ Common(t) \/ EventStore(t)
          \/ AuthSetAuthed(t) \/ AuthClose(t) \/ AuthSetCtx(t)

SpecCtx == InitService /\ [][NextCtx]_vars

\* ------------------------------------------------------------- properties

\* The collaborator calls of a goroutine that went to function fn.
CallsTo(tk, fn) == SelectSeq(tk.calls, LAMBDA call : call.fn = fn)

\* Both integrity gates pass for event ev.
GatesPass(ev) == Sum256Hex(ev.content) = ev.ID /\ ev.sig = "valid"

\* C1: at most one frame write to a connection's transport is in progress
\* at any time, and whoever writes holds the connection's write gate: the
\* pong of the read loop, the ping of the keepalive task, the replies of
\* the handlers and the EOSE goroutine all pass through it.
C1_OneFrameInFlight ==
    \A c \in Conns :
        /\ Cardinality(ws[c].writing) <= 1
        /\ \A w \in ws[c].writing : ws[c].mutex = w

\* The EOSE goroutine of the first request is writing while the read
\* loop, the keepalive task and the second request's handler all wait to.
C1_Witness ==
    /\ ws["c1"].writing = {EoseW(1)}
    /\ reader["c1"] = "pong"
    /\ keepalive["c1"] = "ping"
    /\ Len(tasks) = 2
    /\ tasks[2].pc = "write"

\* C2: the auth-completion signal is fired only by a successful Auth
\* envelope, and every successful Auth envelope, the first or a later one,
\* completes normally.
C2_AuthSignalFiresOnce ==
    /\ \A c \in Conns :
          ws[c].WaitingForAuth = "closed" =>
             \E t \in Tasks :
                /\ tasks[t].conn = c
                /\ tasks[t].env.type = "AUTH"
                /\ ValidateAuthEvent(tasks[t].env, ws[c].Challenge, rl.ServiceURL)
                /\ tasks[t].pc \in {"setCtx", "write", "writing", "done"}
    /\ \A t \in Tasks : tasks[t].pc # "panic"
    /\ ~panicked

\* C3: the authenticated identity of a connection is absent at first and
\* never changes once it is set.
C3_IdentityWriteOnce ==
    [][\A c \in Conns : ws[c].Authed # "" => ws'[c].Authed = ws[c].Authed]_vars

\* Filter k of the request was accepted by the collaborator.
Accepted(tk, k) ==
    \E j \in 1..Len(tk.calls) :
        /\ tk.calls[j].fn = "handleRequest"
        /\ tk.calls[j].filter = k
        /\ tk.calls[j].ret = NoError

\* C4: a request [F1, F2] of which the collaborator accepts F1 and rejects
\* F2 registers F1 only, and emits exactly one EOSE.
C4_PartialSuccessRegistersAccepted ==
    \A t \in Tasks :
        LET tk == tasks[t] IN
        ( /\ tk.env.type = "REQ"
          /\ Len(tk.env.Filters) = 2
          /\ tk.pc = "done"
          /\ tk.eosePc = "done"
          /\ Accepted(tk, 1)
          /\ ~Accepted(tk, 2) )
        => /\ Len(tk.eoseSent) = 1
           /\ Len(CallsTo(tk, "setListener")) = 1
           /\ CallsTo(tk, "setListener")[1].filters = <<1>>

\* The request is past its filter loop, and no filter was accepted.
AllRejected(tk) ==
    /\ tk.env.type = "REQ"
    /\ tk.pc # "start"
    /\ Len(CallsTo(tk, "handleRequest")) = Len(tk.env.Filters)
    /\ \A k \in 1..Len(tk.env.Filters) : ~Accepted(tk, k)

\* C5: a request all of whose filters are rejected writes exactly one
\* closed notice for its subscription id, never calls setListener and
\* never starts or writes an EOSE.
C5_FullyRejectedIsClosed ==
    \A t \in Tasks :
        LET tk == tasks[t] IN
        AllRejected(tk) =>
           /\ tk.eosePc = "none"
           /\ tk.eoseSent = <<>>
           /\ CallsTo(tk, "setListener") = <<>>
           /\ tk.pc \in {"write", "writing", "done"}
           /\ Len(tk.sent) <= 1
           /\ tk.pc = "done" =>
                 /\ Len(tk.sent) = 1
                 /\ tk.sent[1].type = "CLOSED"
                 /\ tk.sent[1].SubscriptionID = tk.env.SubscriptionID

\* A request of two filters, both rejected, has returned.
C5_Witness ==
    /\ Len(tasks) = 1
    /\ AllRejected(tasks[1])
    /\ Len(tasks[1].env.Filters) = 2
    /\ tasks[1].pc = "done"
    /\ listeners["c1"]["sub1"] = NoListener

\* C6: an event that fails an integrity gate is never handed to the
\* ingestion or deletion collaborator and is acknowledged negatively, with
\* the id reason whenever its identifier is wrong, whatever its signature.
C6_IntegrityGates ==
    \A t \in Tasks :
        LET tk == tasks[t] IN
        (tk.env.type = "EVENT" /\ ~GatesPass(tk.env)) =>
           /\ tk.calls = <<>>
           /\ \A k \in 1..Len(tk.sent) :
                 /\ tk.sent[k].type = "OK"
                 /\ ~tk.sent[k].OK
                 /\ Sum256Hex(tk.env.content) # tk.env.ID =>
                       tk.sent[k].Reason = <<"invalid", "id is computed incorrectly">>
           /\ tk.pc = "done" => Len(tk.sent) = 1

\* An event with a wrong identifier and an invalid signature has been
\* refused.
C6_Witness ==
    \E t \in Tasks :
        /\ tasks[t].env.type = "EVENT"
        /\ Sum256Hex(tasks[t].env.content) # tasks[t].env.ID
        /\ tasks[t].env.sig = "invalid"
        /\ tasks[t].pc = "done"
        /\ Len(tasks[t].sent) = 1

\* C7: every event gets exactly one acknowledgment, carrying its claimed
\* identifier, affirmative exactly when both gates passed and the
\* collaborator returned no error.
C7_OneAckPerEvent ==
    \A t \in Tasks :
        LET tk == tasks[t] IN
        tk.env.type = "EVENT" =>
           /\ Len(tk.sent) <= 1
           /\ tk.pc = "done" =>
                 /\ Len(tk.sent) = 1
                 /\ tk.sent[1].type = "OK"
                 /\ tk.sent[1].EventID = tk.env.ID
                 /\ tk.sent[1].OK <=>
                       /\ GatesPass(tk.env)
                       /\ Len(tk.calls) = 1
                       /\ tk.calls[1].ret = NoError

\* One event was stored and acknowledged, another was refused by the
\* collaborator and acknowledged negatively.
C7_Witness ==
    /\ Len(tasks) = 2
    /\ tasks[1].pc = "done" /\ tasks[2].pc = "done"
    /\ tasks[1].sent = <<OKEnvelope("h1", TRUE, NoReason)>>
    /\ tasks[2].env.Kind = 5
    /\ Len(tasks[2].calls) = 1
    /\ tasks[2].calls[1].fn = "handleDeleteRequest"
    /\ tasks[2].sent = <<OKEnvelope("h1", FALSE, <<"blocked", "database is down">>)>>

\* C8: the step of a Close envelope drops the registration of the issuing
\* connection under the envelope's id and no other, of this connection or
\* of another; it changes nothing when there is none; and a Close
\* envelope never writes to the connection.
C8_CloseRemovesOnlyNamed ==
    [][\A t \in Slots :
          (t \in Tasks /\ tasks[t].env.type = "CLOSE") =>
             /\ tasks'[t].sent = <<>>
             /\ tasks'[t].pc \in {"start", "close", "done"}
             /\ (tasks[t].pc = "close" /\ tasks'[t].pc = "done") =>
                   LET c == tasks[t].conn
                       id == tasks[t].env.SubscriptionID
                   IN /\ listeners'[c][id] = NoListener
                      /\ \A c2 \in Conns, id2 \in SubIds :
                            <<c2, id2>> # <<c, id>> =>
                               listeners'[c2][id2] = listeners[c2][id2]
                      /\ listeners[c][id] = NoListener => listeners' = listeners
                      /\ ws' = ws]_vars

\* A request registered sub1 on c1 and a Close then removed it, while sub2
\* of c1 and sub1 of c2 stayed registered.
C8_Witness ==
    /\ Len(tasks) = 2
    /\ tasks[1].env.type = "REQ" /\ tasks[1].conn = "c1"
    /\ tasks[1].pc = "done" /\ CallsTo(tasks[1], "setListener") # <<>>
    /\ tasks[2].env = [type |-> "CLOSE", SubscriptionID |-> "sub1"]
    /\ tasks[2].conn = "c1" /\ tasks[2].pc = "done"
    /\ listeners["c1"]["sub1"] = NoListener
    /\ listeners["c1"]["sub2"] # NoListener
    /\ listeners["c2"]["sub1"] # NoListener

\* C9: without a count collaborator a Count request calls no collaborator,
\* writes no count reply and writes exactly one closed notice that says
\* the capability is unsupported.
C9_CountUnsupported ==
    ~rl.CountEvents =>
       \A t \in Tasks :
          LET tk == tasks[t] IN
          tk.env.type = "COUNT" =>
             /\ tk.calls = <<>>
             /\ Len(tk.sent) <= 1
             /\ \A k \in 1..Len(tk.sent) :
                   tk.sent[k] = ClosedEnvelope(tk.env.SubscriptionID,
                       <<"unsupported", "this relay does not support NIP-45">>)
             /\ tk.pc = "done" => Len(tk.sent) = 1

\* A Count request with filters was closed as unsupported.
C9_Witness ==
    /\ ~rl.CountEvents
    /\ Len(tasks) = 1
    /\ Len(tasks[1].env.Filters) >= 1
    /\ tasks[1].pc = "done"
    /\ Len(tasks[1].sent) = 1

\* C10: when the read loop's deferred function ends, the ticker is
\* stopped, the transport closed, the connection out of rl.clients, and
\* no registration of the connection is left in the registry.
C10_ReadLoopExitCleansUp ==
    [][\A c \in Conns :
          (reader[c] # "exited" /\ reader'[c] = "exited") =>
             /\ ~ticker'[c].run
             /\ ws'[c].conn = "closed"
             /\ c \notin clients'
             /\ \A id \in SubIds : listeners'[c][id] = NoListener]_vars

\* The read loop is gone after a request had registered a listener, and
\* the registration is gone with it.
C10_Witness ==
    /\ reader["c1"] = "exited"
    /\ Len(tasks) >= 1
    /\ tasks[1].pc = "done"
    /\ CallsTo(tasks[1], "setListener") # <<>>
    /\ listeners["c1"]["sub1"] = NoListener
    /\ keepalive["c1"] = "select"

\* C11: after a read error or close on a connection both of its long-lived
\* goroutines end: the read loop's deferred function runs to its end, and
\* the keepalive writer returns too.
C11_BothTasksTerminate ==
    \A c \in Conns :
        (reader[c] = "d_stop") ~> (reader[c] = "exited" /\ keepalive[c] = "done")

\* C12: the EOSE of a subscription request is written only once the
\* completion counter is zero, which is after handleRequest has returned
\* for every filter of the request; it is written at most once; and the
\* handler goes on to setListener without waiting for the counter.
C12_EoseAfterCounterZero ==
    \A t \in SoloSlots :
        (t \in Tasks /\ tasks[t].env.type = "REQ") =>
           LET tk == tasks[t] IN
           /\ (tk.eosePc \in {"writing", "done"} \/ tk.eoseSent # <<>>) =>
                 /\ tk.eose = 0
                 /\ Len(CallsTo(tk, "handleRequest")) = Len(tk.env.Filters)
                 /\ \E k \in 1..Len(tk.env.Filters) : Accepted(tk, k)
           /\ Len(tk.eoseSent) <= 1
           /\ tk.eosePc = "done" =>
                 tk.eoseSent = <<EOSEEnvelope(tk.env.SubscriptionID)>>
           /\ tk.pc = "setListener" => ENABLED ReqSetListener(t)

\* A request of two filters, the first accepted and the second rejected,
\* has written its EOSE.
C12_Witness ==
    /\ Len(tasks) = 1
    /\ Len(tasks[1].env.Filters) = 2
    /\ Accepted(tasks[1], 1) /\ ~Accepted(tasks[1], 2)
    /\ tasks[1].eosePc = "done"
    /\ Len(tasks[1].eoseSent) = 1

\* C13: setListener is called for a subscription request only after
\* handleRequest has returned for every one of its filters, in order, and
\* no handleRequest call follows it.
C13_RegistrationAfterFilters ==
    \A t \in SoloSlots :
        (t \in Tasks /\ tasks[t].env.type = "REQ") =>
           LET tk == tasks[t]
               n == Len(tk.env.Filters)
           IN /\ tk.pc = "setListener" =>
                    Len(CallsTo(tk, "handleRequest")) = n
              /\ \A j \in 1..Len(tk.calls) :
                    IF j <= n
                       THEN /\ tk.calls[j].fn = "handleRequest"
                            /\ tk.calls[j].filter = tk.env.Filters[j]
                       ELSE /\ tk.calls[j].fn = "setListener"
                            /\ j = n + 1

\* A request of two accepted filters has registered its listener.
C13_Witness ==
    /\ Len(tasks) = 1
    /\ Len(tasks[1].env.Filters) = 2
    /\ Accepted(tasks[1], 1) /\ Accepted(tasks[1], 2)
    /\ Len(tasks[1].calls) = 3
    /\ tasks[1].calls[3].fn = "setListener"
    /\ listeners["c1"]["sub1"] = <<1, 2>>

\* The goroutine is in a call to a storage or registry collaborator that
\* has not returned.
AwaitingCollaborator(tk) ==
    tk.pc \in {"store", "count", "req", "setListener", "close"}

\* C14: while a goroutine of a connection awaits a collaborator, the read
\* loop of that connection, when it is in ReadMessage on an open
\* transport, can read the next frame and start a goroutine for it, and
\* every goroutine that has been started can run.
C14_ReadLoopNotStalled ==
    \A c \in Conns :
        (\E t \in Tasks : tasks[t].conn = c /\ AwaitingCollaborator(tasks[t])) =>
           /\ (reader[c] = "loop" /\ ws[c].conn = "open" /\ Len(tasks) < MaxFrames) =>
                 \A m \in EventFrames : ENABLED ReadData(c, m, MaxFrames)
           /\ \A t2 \in Slots :
                 (t2 \in Tasks /\ tasks[t2].conn = c /\ tasks[t2].pc = "start") =>
                    ENABLED TaskStart(t2)

\* The first event is still with its collaborator and the second, read
\* after it, has been refused and acknowledged.
C14_Witness ==
    /\ Len(tasks) = 2
    /\ tasks[1].conn = "c1" /\ tasks[2].conn = "c1"
    /\ tasks[1].pc = "store"
    /\ tasks[2].pc = "done"
    /\ Len(tasks[2].sent) = 1
    /\ reader["c1"] = "loop"

\* An auth envelope that does not validate, on a relay with a service URL.
FailedAuth(tk) ==
    /\ tk.env.type = "AUTH"
    /\ rl.ServiceURL # ""
    /\ ~ValidateAuthEvent(tk.env, ChallengeOf(tk.conn), rl.ServiceURL)

\* C15: the handler of a failed Auth envelope only writes, once, the
\* negative acknowledgment "error: failed to authenticate" for the event,
\* and none of its steps changes the connection's authenticated identity
\* or its auth-completion signal.
C15_FailedAuthChangesNothing ==
    [][\A t \in Slots :
          (t \in Tasks /\ FailedAuth(tasks[t])) =>
             LET c == tasks[t].conn IN
             /\ tasks'[t].pc \in {"start", "write", "writing", "done"}
             /\ Len(tasks'[t].sent) <= 1
             /\ tasks'[t].pc = "done" =>
                   tasks'[t].sent =
                      <<OKEnvelope(tasks[t].env.ID, FALSE,
                                   <<"error", "failed to authenticate">>)>>
             /\ tasks'[t] # tasks[t] =>
                   /\ ws'[c].Authed = ws[c].Authed
                   /\ ws'[c].WaitingForAuth = ws[c].WaitingForAuth]_vars

\* A connection authenticated as pkA has then had an auth event for
\* another connection's challenge refused, and is still pkA.
C15_Witness ==
    /\ Len(tasks) = 2
    /\ tasks[1].pc = "done" /\ ~FailedAuth(tasks[1])
    /\ FailedAuth(tasks[2])
    /\ tasks[2].pc = "done"
    /\ Len(tasks[2].sent) = 1 /\ ~tasks[2].sent[1].OK
    /\ ws["c1"].Authed = "pkA"
    /\ ws["c1"].WaitingForAuth = "closed"

RECURSIVE SumRet(_)
SumRet(calls) ==
    IF calls = <<>> THEN 0 ELSE calls[1].ret + SumRet(Tail(calls))

\* C17: with a count collaborator, a Count request calls it once per
\* filter, in order, and writes exactly one count reply with the request's
\* subscription id and the sum of the results (zero for no filters); no
\* step of its handler changes the listener registry.
C17_CountSumsPerFilter ==
    [][\A t \in SoloSlots :
          (t \in Tasks /\ tasks[t].env.type = "COUNT" /\ rl.CountEvents) =>
             LET tk == tasks'[t]
                 n == Len(tk.env.Filters)
             IN /\ Len(tk.calls) <= n
                /\ \A j \in 1..Len(tk.calls) :
                      /\ tk.calls[j].fn = "handleCountRequest"
                      /\ tk.calls[j].filter = tk.env.Filters[j]
                /\ Len(tk.sent) <= 1
                /\ tk.pc \in {"write", "writing", "done"} =>
                      /\ Len(tk.calls) = n
                      /\ tk.out = CountEnvelope(tk.env.SubscriptionID,
                                                SumRet(tk.calls))
                /\ tk.pc = "done" => tk.sent = <<tk.out>>
                /\ tk # tasks[t] => listeners' = listeners]_vars

\* A count of two filters, one each, was answered with 2 and the
\* connection's registrations are still there.
C17_Witness ==
    /\ Len(tasks) = 1
    /\ tasks[1].pc = "done"
    /\ Len(tasks[1].calls) = 2
    /\ tasks[1].calls[1].ret = 1 /\ tasks[1].calls[2].ret = 1
    /\ tasks[1].sent = <<CountEnvelope("sub1", 2)>>
    /\ listeners["c1"]["sub1"] = <<1>>

\* Every goroutine spawned for a message of connection c has returned,
\* and so has every EOSE goroutine.
AllTasksFinished(c) ==
    \A t \in Tasks :
        tasks[t].conn = c =>
           /\ tasks[t].pc = "done"
           /\ tasks[t].eosePc \in {"none", "done"}

\* C18: once the read loop of a connection has exited and every goroutine
\* of its messages has returned, the registry holds no registration of the
\* connection.
C18_NoRegistrationAfterExit ==
    \A c \in Conns :
        (reader[c] = "exited" /\ AllTasksFinished(c)) =>
           \A id \in SubIds : listeners[c][id] = NoListener

\* C19: the context a goroutine hands to a collaborator is the one it set
\* up itself when it started, context.Background(), whatever the other
\* goroutines of the connection did to ctx in between.
C19_TaskContextIsOwn ==
    \A t \in Tasks :
        \A j \in 1..Len(tasks[t].calls) :
            tasks[t].calls[j].ctx = [ws |-> FALSE, auth |-> ""]

\* The goroutine has an affirmative acknowledgment to write, is writing
\* it, or has written it.
AffirmativeAck(tk) ==
    \/ tk.pc \in {"write", "writing"} /\ tk.out.type = "OK" /\ tk.out.OK
    \/ \E k \in 1..Len(tk.sent) : tk.sent[k].type = "OK" /\ tk.sent[k].OK

\* C20: a connection whose auth-completion signal has fired has its
\* authenticated identity set, and an Auth envelope is acknowledged
\* affirmatively only when the identity is set and the signal has fired.
C20_SignalImpliesIdentity ==
    /\ \A c \in Conns :
          ws[c].WaitingForAuth = "closed" => ws[c].Authed \in PubKeys
    /\ \A t \in Tasks :
          (tasks[t].env.type = "AUTH" /\ AffirmativeAck(tasks[t])) =>
             /\ ws[tasks[t].conn].Authed \in PubKeys
             /\ ws[tasks[t].conn].WaitingForAuth = "closed"

\* The first successful auth of a connection is writing its affirmative
\* acknowledgment.
C20_Witness ==
    /\ Len(tasks) = 1
    /\ tasks[1].env.type = "AUTH"
    /\ tasks[1].pc = "writing"
    /\ tasks[1].out = OKEnvelope("a1", TRUE, NoReason)
    /\ ws["c1"].Authed = "pkB"
    /\ ws["c1"].WaitingForAuth = "closed"

====
